---- MODULE Spec2Model ----
(***************************************************************************)
(* Model of src/src/crew.py: the knowledge-base rebuild script.            *)
(*                                                                         *)
(* Python values are modelled as follows.                                  *)
(*   str    a sequence of one-character strings                            *)
(*   None   (for Element.text) the empty sequence: ElementTree's parser    *)
(*          never yields an empty text, and the code only tests text for   *)
(*          truth, so None and "" are indistinguishable to it              *)
(*   yaml   a node record [t, s, n, keys, items] (see PStr .. PDict)       *)
(*   a call a record [exc, val]: exc = "" when the call returned val,      *)
(*          else the name of the exception it raised                       *)
(*                                                                         *)
(* The inputs are well-formed: structure.yaml parses, every page has an    *)
(* id and a title, page ids are distinct, every template file that exists  *)
(* parses and has a page_template key.  The file system does not fail:     *)
(* the directories made before a page's file is written are not modelled. *)
(*                                                                         *)
(* Spec        a run of the script over a category tree three levels deep  *)
(* SpecLookup  the XML helpers and extract_content called on their own     *)
(* SpecFill    fill_template called on its own                             *)
(***************************************************************************)
EXTENDS Integers, Sequences, FiniteSets, TLC

\* ---------------------------------------------------------------- bounds

\* longest child list of a generated XML root
MaxChildren == 2
\* largest section number asked of get_nth_section_text
MaxN == 3
\* longest pages list of a category of the generated structure
MaxPages == 2
\* longest list of a generated template
MaxListLen == 2

\* ---------------------------------------------------------- Python str

WS == {" ", "\n", "\t"}

Ret(v) == [exc |-> "", val |-> v]

Raise(e) == [exc |-> e, val |-> <<>>]

RECURSIVE LStrip(_)
LStrip(s) ==
    IF s # <<>> /\ Head(s) \in WS THEN LStrip(Tail(s)) ELSE s

RECURSIVE RStrip(_)
RStrip(s) ==
    IF s # <<>> /\ s[Len(s)] \in WS THEN RStrip(SubSeq(s, 1, Len(s) - 1)) ELSE s

\* str.strip()
Strip(s) == RStrip(LStrip(s))

\* str.split(sep) for a one-character sep: always at least one part
RECURSIVE SplitFrom(_, _, _)
SplitFrom(s, sep, cur) ==
    IF s = <<>> THEN <<cur>>
    ELSE IF Head(s) = sep THEN <<cur>> \o SplitFrom(Tail(s), sep, <<>>)
    ELSE SplitFrom(Tail(s), sep, Append(cur, Head(s)))

Split(s, sep) == SplitFrom(s, sep, <<>>)

\* str.replace(a, b) for one-character a, b
Replace(s, a, b) == [i \in 1..Len(s) |-> IF s[i] = a THEN b ELSE s[i]]

Lowers == <<"a","b","c","d","e","f","g","h","i","j","k","l","m","n","o","p","q","r","s","t","u","v","w","x","y","z">>

Uppers == <<"A","B","C","D","E","F","G","H","I","J","K","L","M","N","O","P","Q","R","S","T","U","V","W","X","Y","Z">>

IndexIn(c, alphabet) ==
    IF \E i \in 1..Len(alphabet) : alphabet[i] = c
    THEN CHOOSE i \in 1..Len(alphabet) : alphabet[i] = c
    ELSE 0

IsCased(c) == IndexIn(c, Lowers) > 0 \/ IndexIn(c, Uppers) > 0

ToUpper(c) == IF IndexIn(c, Lowers) > 0 THEN Uppers[IndexIn(c, Lowers)] ELSE c

ToLower(c) == IF IndexIn(c, Uppers) > 0 THEN Lowers[IndexIn(c, Uppers)] ELSE c

\* str.title(): a cased character is upper-cased after an uncased one (or at
\* the start) and lower-cased after a cased one
Title(s) ==
    [i \in 1..Len(s) |->
        IF i > 1 /\ IsCased(s[i - 1]) THEN ToLower(s[i]) ELSE ToUpper(s[i])]

Digits == <<"0","1","2","3","4","5","6","7","8","9">>

RECURSIVE NatStr(_)
NatStr(n) ==
    IF n < 10 THEN <<Digits[n + 1]>> ELSE NatStr(n \div 10) \o <<Digits[(n % 10) + 1]>>

\* str(n) of an int
IntStr(n) == IF n < 0 THEN <<"-">> \o NatStr(0 - n) ELSE NatStr(n)

\* seq[i] of a Python list, i zero-based, negative i counted from the end
PyIndex(seq, i) ==
    IF 0 <= i /\ i < Len(seq) THEN Ret(seq[i + 1])
    ELSE IF i < 0 /\ 0 - i <= Len(seq) THEN Ret(seq[Len(seq) + i + 1])
    ELSE Raise("IndexError")

\* ------------------------------------------------- xml.etree.ElementTree

\* an Element; attrib is a sequence of <<name, value>> pairs
Elem(tag, attrib, text, children) ==
    [tag |-> tag, attrib |-> attrib, text |-> text, children |-> children]

\* the value standing for Python's None where an Element is expected
NoElem == Elem(<<>>, <<>>, <<>>, <<>>)

\* every descendant with that tag, in document order, as Element.iter gives
RECURSIVE Descendants(_, _)
Descendants(elems, tag) ==
    IF elems = <<>> THEN <<>>
    ELSE (IF Head(elems).tag = tag THEN <<Head(elems)>> ELSE <<>>)
         \o Descendants(Head(elems).children, tag)
         \o Descendants(Tail(elems), tag)

\* findall searching below the direct children too
FindAllDeep(elem, tag) == Descendants(elem.children, tag)

\* Element.findall(tag): the direct children with that tag, in document order
FindAll(elem, tag) == SelectSeq(elem.children, LAMBDA c : c.tag = tag)

\* Element.find(tag): the first direct child with that tag, or None
Find(elem, tag) ==
    IF FindAll(elem, tag) = <<>> THEN NoElem ELSE Head(FindAll(elem, tag))

\* ----------------------------------------------------------- the helpers

NotFound(what) == <<"[">> \o what \o <<" ","n","o","t"," ","f","o","u","n","d","]">>

\* the loop of get_text_from_path: target after the given parts
RECURSIVE Descend(_, _)
Descend(target, parts) ==
    IF parts = <<>> THEN target
    ELSE IF target # NoElem THEN Descend(Find(target, Head(parts)), Tail(parts))
    ELSE target

\* get_text_from_path without the strip()
get_text_from_path_unstripped(elem, path) ==
    LET target == Descend(elem, Split(path, "/"))
    IN  IF target # NoElem /\ target.text # <<>>
        THEN target.text
        ELSE NotFound(path)

get_text_from_path(elem, path) ==
    LET target == Descend(elem, Split(path, "/"))
    IN  IF target # NoElem /\ target.text # <<>>
        THEN Strip(target.text)
        ELSE NotFound(path)

get_nth_section_text(root, n) ==
    LET sections == FindAll(root, <<"s","e","c","t","i","o","n">>)
    IN  IF Len(sections) >= n
        THEN LET nth == PyIndex(sections, n - 1)
             IN  IF nth.exc # "" THEN nth
                 ELSE IF nth.val.text # <<>> THEN Ret(Strip(nth.val.text))
                 ELSE Ret(<<>>)
        ELSE Ret(NotFound(<<"s","e","c","t","i","o","n"," ">> \o IntStr(n)))


\* ------------------------------------------------------ parsed YAML data

PStr(s) == [t |-> "str", s |-> s, n |-> 0, keys |-> <<>>, items |-> <<>>]

PInt(n) == [t |-> "int", s |-> <<>>, n |-> n, keys |-> <<>>, items |-> <<>>]

PNone == [t |-> "none", s |-> <<>>, n |-> 0, keys |-> <<>>, items |-> <<>>]

PList(items) == [t |-> "list", s |-> <<>>, n |-> 0, keys |-> <<>>, items |-> items]

\* a dict in insertion order: keys[i] maps to items[i]
PDict(keys, vals) == [t |-> "dict", s |-> <<>>, n |-> 0, keys |-> keys, items |-> vals]

\* Python truth of a value
Truthy(v) ==
    CASE v.t = "str" -> v.s # <<>>
      [] v.t = "int" -> v.n # 0
      [] v.t = "none" -> FALSE
      [] OTHER -> v.items # <<>>

HasKey(d, k) == \E i \in 1..Len(d.keys) : d.keys[i] = k

ValueOf(d, k) == d.items[CHOOSE i \in 1..Len(d.keys) : d.keys[i] = k]

\* dict.get(k, default)
Get(d, k, default) == IF HasKey(d, k) THEN ValueOf(d, k) ELSE default

RECURSIVE Join(_, _)
Join(parts, sep) ==
    IF parts = <<>> THEN <<>>
    ELSE IF Len(parts) = 1 THEN parts[1]
    ELSE parts[1] \o sep \o Join(Tail(parts), sep)

\* repr(v), for strings without quotes, backslashes or control characters
RECURSIVE Repr(_)
Repr(v) ==
    CASE v.t = "str" -> <<"'">> \o v.s \o <<"'">>
      [] v.t = "int" -> IntStr(v.n)
      [] v.t = "none" -> <<"N","o","n","e">>
      [] v.t = "list" ->
            <<"[">> \o Join([i \in 1..Len(v.items) |-> Repr(v.items[i])], <<","," ">>) \o <<"]">>
      [] OTHER ->
            <<"{">> \o Join([i \in 1..Len(v.items) |->
                            <<"'">> \o v.keys[i] \o <<"'",":"," ">> \o Repr(v.items[i])], <<","," ">>)
              \o <<"}">>

\* str(v), also what an f-string makes of v
PyStr(v) == IF v.t = "str" THEN v.s ELSE Repr(v)

\* ------------------------------------------------------------ str.format

\* a content map is a sequence of <<key, value>> pairs of strings
MapKeys(data) == {data[i][1] : i \in 1..Len(data)}

MapGet(data, k) == data[CHOOSE i \in 1..Len(data) : data[i][1] = k][2]

IndexOf(s, c) ==
    IF \E i \in 1..Len(s) : s[i] = c
    THEN CHOOSE i \in 1..Len(s) : s[i] = c /\ \A j \in 1..(i - 1) : s[j] # c
    ELSE 0

AllDigits(s) == \A i \in 1..Len(s) : IndexIn(s[i], Digits) > 0

\* the replacement of one field {name}: with no positional arguments an empty
\* or numeric name is an IndexError, a name that is no keyword a KeyError.
\* Field names with attribute or index access, conversions and format
\* specifications are not modelled.
\* a field that is no keyword replaced by nothing instead of raising
FormatFieldLenient(name, data) ==
    IF AllDigits(name) THEN Raise("IndexError")
    ELSE IF name \in MapKeys(data) THEN Ret(MapGet(data, name))
    ELSE Ret(<<>>)

FormatField(name, data) ==
    IF AllDigits(name) THEN Raise("IndexError")
    ELSE IF name \in MapKeys(data) THEN Ret(MapGet(data, name))
    ELSE Raise("KeyError")

\* s.format(**data), scanning left to right with acc the output so far
RECURSIVE FormatFrom(_, _, _)
FormatFrom(s, data, acc) ==
    IF s = <<>> THEN Ret(acc)
    ELSE IF Head(s) = "{" THEN
        IF Len(s) >= 2 /\ s[2] = "{"
        THEN FormatFrom(SubSeq(s, 3, Len(s)), data, Append(acc, "{"))
        ELSE LET close == IndexOf(Tail(s), "}")
                 name == SubSeq(Tail(s), 1, close - 1)
                 field == FormatField(name, data)
             IN  IF close = 0 \/ IndexOf(name, "{") > 0 THEN Raise("ValueError")
                 ELSE IF field.exc # "" THEN field
                 ELSE FormatFrom(SubSeq(Tail(s), close + 1, Len(s) - 1), data,
                                 acc \o field.val)
    ELSE IF Head(s) = "}" THEN
        IF Len(s) >= 2 /\ s[2] = "}"
        THEN FormatFrom(SubSeq(s, 3, Len(s)), data, Append(acc, "}"))
        ELSE Raise("ValueError")
    ELSE FormatFrom(Tail(s), data, Append(acc, Head(s)))

Format(s, data) == FormatFrom(s, data, <<>>)

\* --------------------------------------------------------- fill_template

\* f applied to the elements in order; the first exception ends it
RECURSIVE recursive_replace(_, _)
RECURSIVE ReplaceEach(_, _)
ReplaceEach(items, data) ==
    IF items = <<>> THEN Ret(<<>>)
    ELSE LET first == recursive_replace(Head(items), data)
             rest == ReplaceEach(Tail(items), data)
         IN  IF first.exc # "" THEN first
             ELSE IF rest.exc # "" THEN rest
             ELSE Ret(<<first.val>> \o rest.val)

\* recursive_replace without its dict branch
recursive_replace_no_dict(obj, data) ==
    CASE obj.t = "str" ->
            LET r == Format(obj.s, data)
            IN  IF r.exc # "" THEN r ELSE Ret(PStr(r.val))
      [] obj.t = "list" ->
            LET r == ReplaceEach(obj.items, data)
            IN  IF r.exc # "" THEN r ELSE Ret(PList(r.val))
      [] OTHER -> Ret(obj)

recursive_replace(obj, data) ==
    CASE obj.t = "str" ->
            LET r == Format(obj.s, data)
            IN  IF r.exc # "" THEN r ELSE Ret(PStr(r.val))
      [] obj.t = "list" ->
            LET r == ReplaceEach(obj.items, data)
            IN  IF r.exc # "" THEN r ELSE Ret(PList(r.val))
      [] obj.t = "dict" ->
            LET r == ReplaceEach(obj.items, data)
            IN  IF r.exc # "" THEN r ELSE Ret(PDict(obj.keys, r.val))
      [] OTHER -> Ret(obj)

fill_template(template, data) == recursive_replace(template, data)

\* ---------------------------------------------------------- save_markdown

\* what one list item adds to the file: [exc, val] with val the text written
\* before the exception, if any
WriteItem(item) ==
    IF item.t # "dict" THEN Raise("AttributeError")
    ELSE LET heading == Get(item, <<"h","e","a","d","i","n","g">>, Get(item, <<"t","i","t","l","e">>, PStr(<<>>)))
             body == Get(item, <<"b","o","d","y">>, Get(item, <<"c","o","n","t","e","n","t">>, PStr(<<>>)))
             first == <<"\n","#","#","#"," ">> \o PyStr(heading) \o <<"\n">>
         IN  IF body.t # "str" THEN [exc |-> "TypeError", val |-> first]
             ELSE Ret(first \o body.s \o <<"\n">>)

RECURSIVE WriteItems(_)
WriteItems(items) ==
    IF items = <<>> THEN Ret(<<>>)
    ELSE LET first == WriteItem(Head(items))
             rest == WriteItems(Tail(items))
         IN  IF first.exc # "" THEN first
             ELSE [exc |-> rest.exc, val |-> first.val \o rest.val]

WriteValue(val) ==
    IF val.t = "list" THEN WriteItems(val.items)
    ELSE Ret(PyStr(val) \o <<"\n","\n">>)

RECURSIVE WriteValues(_)
WriteValues(vals) ==
    IF vals = <<>> THEN Ret(<<>>)
    ELSE LET first == WriteValue(Head(vals))
             rest == WriteValues(Tail(vals))
         IN  IF first.exc # "" THEN first
             ELSE [exc |-> rest.exc, val |-> first.val \o rest.val]

\* the text save_markdown leaves in the file it opened, and the exception
\* that ended it, if any
save_markdown(content) ==
    IF content.t = "dict" THEN WriteValues(content.items)
    ELSE IF content.t = "str" THEN Ret(content.s)
    ELSE Raise("TypeError")

\* ------------------------------------------------------------ dict_to_xml

\* the sub-elements made of a mapping's items
SubElements(d) ==
    [i \in 1..Len(d.keys) |-> Elem(d.keys[i], <<>>, PyStr(d.items[i]), <<>>)]

\* the children one key adds to the element
RECURSIVE ItemChildren(_, _)
ItemChildren(key, items) ==
    IF items = <<>> THEN Ret(<<>>)
    ELSE IF Head(items).t # "dict" THEN Raise("AttributeError")
    ELSE LET rest == ItemChildren(key, Tail(items))
         IN  IF rest.exc # "" THEN rest
             ELSE Ret(<<Elem(key, <<>>, <<>>, SubElements(Head(items)))>> \o rest.val)

KeyChildren(key, val) ==
    CASE val.t = "list" -> ItemChildren(key, val.items)
      [] val.t = "dict" -> Ret(<<Elem(key, <<>>, <<>>, SubElements(val))>>)
      [] OTHER -> Ret(<<Elem(key, <<>>, PyStr(val), <<>>)>>)

RECURSIVE AllChildren(_, _)
AllChildren(keys, vals) ==
    IF keys = <<>> THEN Ret(<<>>)
    ELSE LET first == KeyChildren(Head(keys), Head(vals))
             rest == AllChildren(Tail(keys), Tail(vals))
         IN  IF first.exc # "" THEN first
             ELSE IF rest.exc # "" THEN rest
             ELSE Ret(first.val \o rest.val)

dict_to_xml(tag, data) ==
    IF data.t # "dict" THEN Raise("AttributeError")
    ELSE LET kids == AllChildren(data.keys, data.items)
         IN  IF kids.exc # "" THEN kids ELSE Ret(Elem(tag, <<>>, <<>>, kids.val))

\* Element.set(name, value)
SetAttr(elem, name, value) ==
    [elem EXCEPT !.attrib =
        SelectSeq(elem.attrib, LAMBDA a : a[1] # name) \o <<<<name, value>>>>]

\* -------------------------------------------------------- extract_content

\* what xml_tool.search returns: nothing, or raw text that is either
\* well-formed XML (with the tree it parses to) or not
NoMatch == [found |-> FALSE, wellformed |-> FALSE, root |-> NoElem]

Malformed == [found |-> TRUE, wellformed |-> FALSE, root |-> NoElem]

RawXml(root) == [found |-> TRUE, wellformed |-> TRUE, root |-> root]

\* ET.fromstring under the try of parse_xml_string: the root, or None
parse_xml_string(raw) == IF raw.wellformed THEN raw.root ELSE NoElem

Last(seq) == seq[Len(seq)]

FIELDS ==
    << <<"p","a","g","e","_","t","i","t","l","e">>, <<"i","n","t","r","o","d","u","c","t","i","o","n">>, <<"c","o","n","c","l","u","s","i","o","n">>,
       <<"s","e","c","t","i","o","n","_","1","_","h","e","a","d","i","n","g">>, <<"s","e","c","t","i","o","n","_","1","_","c","o","n","t","e","n","t">>,
       <<"s","e","c","t","i","o","n","_","2","_","h","e","a","d","i","n","g">>, <<"s","e","c","t","i","o","n","_","2","_","c","o","n","t","e","n","t">>,
       <<"f","a","q","_","1","_","q","u","e","s","t","i","o","n">>, <<"f","a","q","_","1","_","a","n","s","w","e","r">>, <<"f","a","q","_","2","_","q","u","e","s","t","i","o","n">>, <<"f","a","q","_","2","_","a","n","s","w","e","r">>,
       <<"s","t","e","p","_","1","_","t","i","t","l","e">>, <<"s","t","e","p","_","1","_","c","o","n","t","e","n","t">>, <<"s","t","e","p","_","2","_","t","i","t","l","e">>, <<"s","t","e","p","_","2","_","c","o","n","t","e","n","t">> >>

ContentOf(root, page_id) ==
    LET s1 == get_nth_section_text(root, 1)
        s2 == get_nth_section_text(root, 2)
    IN  IF s1.exc # "" THEN s1
        ELSE IF s2.exc # "" THEN s2
        ELSE Ret(<<
          << <<"p","a","g","e","_","t","i","t","l","e">>, Title(Replace(Last(Split(page_id, "/")), "-", " ")) >>,
          << <<"i","n","t","r","o","d","u","c","t","i","o","n">>, get_text_from_path(root, <<"i","n","t","r","o","d","u","c","t","i","o","n">>) >>,
          << <<"c","o","n","c","l","u","s","i","o","n">>, get_text_from_path(root, <<"c","o","n","c","l","u","s","i","o","n">>) >>,
          << <<"s","e","c","t","i","o","n","_","1","_","h","e","a","d","i","n","g">>, <<"O","v","e","r","v","i","e","w">> >>,
          << <<"s","e","c","t","i","o","n","_","1","_","c","o","n","t","e","n","t">>, s1.val >>,
          << <<"s","e","c","t","i","o","n","_","2","_","h","e","a","d","i","n","g">>, <<"D","e","t","a","i","l","s">> >>,
          << <<"s","e","c","t","i","o","n","_","2","_","c","o","n","t","e","n","t">>, s2.val >>,
          << <<"f","a","q","_","1","_","q","u","e","s","t","i","o","n">>, get_text_from_path(root, <<"f","a","q","/","q">>) >>,
          << <<"f","a","q","_","1","_","a","n","s","w","e","r">>, get_text_from_path(root, <<"f","a","q","/","a">>) >>,
          << <<"f","a","q","_","2","_","q","u","e","s","t","i","o","n">>, <<"W","h","e","r","e"," ","d","o","e","s"," ","t","h","i","s"," ","c","o","n","t","e","n","t"," ","c","o","m","e"," ","f","r","o","m","?">> >>,
          << <<"f","a","q","_","2","_","a","n","s","w","e","r">>,
             <<"T","h","i","s"," ","c","o","n","t","e","n","t"," ","w","a","s"," ","e","x","t","r","a","c","t","e","d"," ","f","r","o","m"," ","t","h","e"," ","o","r","i","g","i","n","a","l"," ","X","M","L"," ","k","n","o","w","l","e","d","g","e"," ","b","a","s","e",".">> >>,
          << <<"s","t","e","p","_","1","_","t","i","t","l","e">>, <<"S","t","e","p"," ","O","n","e">> >>,
          << <<"s","t","e","p","_","1","_","c","o","n","t","e","n","t">>, get_text_from_path(root, <<"s","t","e","p","s","/","s","t","e","p","1">>) >>,
          << <<"s","t","e","p","_","2","_","t","i","t","l","e">>, <<"S","t","e","p"," ","T","w","o">> >>,
          << <<"s","t","e","p","_","2","_","c","o","n","t","e","n","t">>, get_text_from_path(root, <<"s","t","e","p","s","/","s","t","e","p","2">>) >> >>)

\* extract_content, given what xml_tool.search(f'id="{page_id}"') returned
extract_content(raw, page_id) ==
    IF ~raw.found THEN Ret(<<>>)
    ELSE IF parse_xml_string(raw) = NoElem THEN Ret(<<>>)
    ELSE ContentOf(parse_xml_string(raw), page_id)

\* ------------------------------------------------------------ the inputs

\* structure.yaml: a category is [template, pages, subcategories] and a page
\* [id, title, template]; template = <<>> stands for an absent "template" key,
\* pages = <<>> also for an absent "pages" key
Category(template, pages, subcategories) ==
    [template |-> template, pages |-> pages, subcategories |-> subcategories]

Page(id, template) == [id |-> id, title |-> Title(id), template |-> template]

\* n pages with ids <prefix>1 .. <prefix>n; the first carries its own template
\* when first # <<>>
PagesOf(prefix, n, first) ==
    [i \in 1..n |-> Page(prefix \o NatStr(i), IF i = 1 THEN first ELSE <<>>)]

\* two top-level categories, the first with a subcategory that has a
\* subcategory of its own
Structures ==
    { << Category(t1, PagesOf(<<"k","b","/","a","-">>, n1, ov),
            << Category(t2, PagesOf(<<"k","b","/","s","u","b","/","b","-">>, n2, <<>>),
                  << Category(<<>>, PagesOf(<<"k","b","/","s","u","b","/","d","e","e","p","/","c","-">>, n3, <<>>), <<>>) >>) >>),
         Category(<<>>, PagesOf(<<"d","-">>, 1, <<>>), <<>>) >> :
        t1 \in {<<>>, <<"g","u","i","d","e">>}, t2 \in {<<>>, <<"f","a","q">>}, ov \in {<<>>, <<"f","a","q">>},
        n1 \in 0..MaxPages, n2 \in 0..MaxPages, n3 \in 0..1 }

\* page templates (the value under "page_template" of a template file)
PlainTemplate == PDict(<< <<"b","o","d","y">> >>, << PStr(<<"S","t","a","t","i","c"," ","t","e","x","t">>) >>)

GoodTemplate ==
    PDict(<< <<"t","i","t","l","e">>, <<"b","o","d","y">>, <<"s","e","c","t","i","o","n","s">>, <<"r","a","n","k">> >>,
          << PStr(<<"{","p","a","g","e","_","t","i","t","l","e","}">>),
             PStr(<<"{","i","n","t","r","o","d","u","c","t","i","o","n","}"," ","/"," ","{","s","e","c","t","i","o","n","_","1","_","c","o","n","t","e","n","t","}">>),
             PList(<< PDict(<< <<"h","e","a","d","i","n","g">>, <<"b","o","d","y">> >>,
                            << PStr(<<"{","s","e","c","t","i","o","n","_","2","_","h","e","a","d","i","n","g","}">>),
                               PStr(<<"{","s","e","c","t","i","o","n","_","2","_","c","o","n","t","e","n","t","}">>) >>) >>),
             PInt(1) >>)

BadTemplate == PDict(<< <<"b","o","d","y">> >>, << PStr(<<"{","s","u","m","m","a","r","y","}">>) >>)

EmptyTemplate == PDict(<<>>, <<>>)

\* a list of strings where save_markdown and dict_to_xml expect mappings
StepsTemplate == PDict(<< <<"s","t","e","p","s">> >>, << PList(<< PStr(<<"{","s","t","e","p","_","1","_","t","i","t","l","e","}">>) >>) >>)

\* the templates directory: <<name, page_template>> for each <name>.yaml in it
TemplateDirs ==
    { SelectSeq(<< << <<"d","e","f","a","u","l","t","_","p","a","g","e">>, d >>, << <<"g","u","i","d","e">>, g >>, << <<"f","a","q">>, f >> >>,
                LAMBDA file : file[2] # PNone) :
        d \in {PNone, GoodTemplate, BadTemplate},
        g \in {GoodTemplate, EmptyTemplate, StepsTemplate},
        f \in {PNone, PlainTemplate} }

\* the export's record of a page: ids ending in 1 have an introduction and no
\* section, the others a full record
ExportPage(page_id) ==
    IF Last(page_id) = "1"
    THEN Elem(<<"p","a","g","e">>, << << <<"i","d">>, page_id >> >>, <<"\n">>,
              << Elem(<<"i","n","t","r","o","d","u","c","t","i","o","n">>, <<>>, <<"H","e","l","l","o">>, <<>>) >>)
    ELSE Elem(<<"p","a","g","e">>, << << <<"i","d">>, page_id >> >>, <<"\n">>,
              << Elem(<<"i","n","t","r","o","d","u","c","t","i","o","n">>, <<>>, <<" ","I","n","t","r","o"," ">>, <<>>),
                 Elem(<<"s","e","c","t","i","o","n">>, <<>>, <<"O","n","e">>, <<>>),
                 Elem(<<"s","e","c","t","i","o","n">>, <<>>, <<"T","w","o","\n">>, <<>>),
                 Elem(<<"f","a","q">>, <<>>, <<>>,
                      << Elem(<<"q">>, <<>>, <<"W","h","y","?">>, <<>>),
                         Elem(<<"a">>, <<>>, <<>>, <<>>) >>),
                 Elem(<<"s","t","e","p","s">>, <<>>, <<>>,
                      << Elem(<<"s","t","e","p","1">>, <<>>, <<"S","t","a","r","t">>, <<>>) >>) >>)

\* what xml_tool.search may answer for a page id
SearchResults(page_id) == {NoMatch, Malformed, RawXml(ExportPage(page_id))}

SearchKind(raw) ==
    IF ~raw.found THEN "nomatch" ELSE IF ~raw.wellformed THEN "malformed" ELSE "ok"

\* -------------------------------------------------------------- the state

VARIABLES
    structure,          \* structure["knowledge_base"]
    templates,          \* the templates directory
    pc,                 \* "idle", "run", "done" or "crashed"
    ci, si, pi,         \* the category, the process_pages call made for it
                        \* and the page the loops are at
    page_xml_elements,  \* of the process_pages call in progress
    all_pages,
    files,              \* <<path, text>> for each file under output/
    aggregate,          \* the root written to knowledge_base.xml, or None
    queries,            \* the page ids xml_tool.search was asked for
    stdout,             \* <<kind, detail>> for each line printed
    error,              \* the uncaught exception that ended the run, or ""
    trail,              \* per page begun: page_id, template_name, what the
                        \* search answered and how the iteration ended
    call, args, result  \* a helper called on its own, its arguments, its result

vars ==
    << structure, templates, pc, ci, si, pi, page_xml_elements, all_pages, files,
       aggregate, queries, stdout, error, trail, call, args, result >>

runVars ==
    << pc, ci, si, pi, page_xml_elements, all_pages, files, aggregate, queries,
       stdout, error, trail >>

\* ---------------------------------------------------------- load_template

load_template(template_name) ==
    IF template_name \in MapKeys(templates)
    THEN MapGet(templates, template_name)
    ELSE PNone

\* ---------------------------------------------------------- process_pages

OutputPath(page_id) == <<"o","u","t","p","u","t","/">> \o page_id \o <<".","m","d">>

\* open(path, "w") followed by the writes
WriteFile(fs, path, text) ==
    SelectSeq(fs, LAMBDA f : f[1] # path) \o << <<path, text>> >>

\* what an iteration of process_pages leaves: the exception that ended it (or
\* ""), whether the page's file was opened, whether save_markdown returned,
\* the file's text, the page element
Built(exc, wrote, saved, text, elem) ==
    [exc |-> exc, wrote |-> wrote, saved |-> saved, text |-> text, elem |-> elem]

\* lines 172-180: md is what save_markdown did, el what dict_to_xml did
AfterSave(md, el, page_id) ==
    IF md.exc # "" THEN Built(md.exc, TRUE, FALSE, md.val, NoElem)
    ELSE IF el.exc # "" THEN Built(el.exc, TRUE, TRUE, md.val, NoElem)
    ELSE Built("", TRUE, TRUE, md.val, SetAttr(el.val, <<"i","d">>, page_id))

\* lines 169-180: filled is what fill_template did
AfterFill(filled, page_id) ==
    IF filled.exc # "" THEN Built(filled.exc, FALSE, FALSE, <<>>, NoElem)
    ELSE AfterSave(save_markdown(filled.val), dict_to_xml(<<"p","a","g","e">>, filled.val), page_id)

\* lines 168-180: content is what extract_content did
AfterExtract(template, content, page_id) ==
    IF content.exc # "" THEN Built(content.exc, FALSE, FALSE, <<>>, NoElem)
    ELSE AfterFill(fill_template(template, content.val), page_id)

\* the part of an iteration of process_pages after the template was loaded
BuildOf(template, raw, page_id) ==
    AfterExtract(template, extract_content(raw, page_id), page_id)

CategoryTemplate(category) ==
    IF category.template = <<>> THEN <<"d","e","f","a","u","l","t","_","p","a","g","e">> ELSE category.template

\* the subcategories' calls made before the call for the category's own pages
CallsSubcategoriesFirst(category) ==
    [k \in 1..Len(category.subcategories) |->
          [pages |-> category.subcategories[k].pages,
           default_template |->
              IF category.subcategories[k].template = <<>>
              THEN CategoryTemplate(category)
              ELSE category.subcategories[k].template]]
    \o << [pages |-> category.pages, default_template |-> CategoryTemplate(category)] >>

\* the process_pages calls the loop body makes for one category, in order:
\* its own pages, then the pages of each of its subcategories
Calls(category) ==
    << [pages |-> category.pages, default_template |-> CategoryTemplate(category)] >>
    \o [k \in 1..Len(category.subcategories) |->
          [pages |-> category.subcategories[k].pages,
           default_template |->
              IF category.subcategories[k].template = <<>>
              THEN CategoryTemplate(category)
              ELSE category.subcategories[k].template]]

\* the pages and default_template of the process_pages call in progress
CurPages == Calls(structure[ci])[si].pages

CurDefault == Calls(structure[ci])[si].default_template

TemplateName(page, default_template) ==
    IF page.template = <<>> THEN default_template ELSE page.template

InLoop == pc = "run" /\ ci <= Len(structure) /\ pi <= Len(CurPages)

SearchPrints(raw) ==
    IF ~raw.found THEN << <<"no_xml_content", "">> >>
    ELSE IF ~raw.wellformed THEN << <<"xml_parse_error", "">> >>
    ELSE <<>>

Entry(page_id, template_name, search, outcome) ==
    [page_id |-> page_id, template_name |-> template_name, search |-> search,
     outcome |-> outcome]

\* an iteration that ends the loop ("break") where the template is missing
SkipPageBreak ==
    /\ InLoop
    /\ LET page == CurPages[pi]
           template_name == TemplateName(page, CurDefault)
       IN  /\ ~Truthy(load_template(template_name))
           /\ stdout' = stdout \o << <<"building", page.id>> >>
                \o (IF template_name \in MapKeys(templates) THEN <<>>
                    ELSE << <<"template_not_found", template_name>> >>)
           /\ trail' = Append(trail, Entry(page.id, template_name, "", "skipped"))
    /\ pi' = Len(CurPages) + 1
    /\ UNCHANGED << structure, templates, pc, ci, si, page_xml_elements, all_pages,
                    files, aggregate, queries, error, call, args, result >>

\* an iteration that ends at "continue": the template is missing or empty
SkipPage ==
    /\ InLoop
    /\ LET page == CurPages[pi]
           template_name == TemplateName(page, CurDefault)
       IN  /\ ~Truthy(load_template(template_name))
           /\ stdout' = stdout \o << <<"building", page.id>> >>
                \o (IF template_name \in MapKeys(templates) THEN <<>>
                    ELSE << <<"template_not_found", template_name>> >>)
           /\ trail' = Append(trail, Entry(page.id, template_name, "", "skipped"))
    /\ pi' = pi + 1
    /\ UNCHANGED << structure, templates, pc, ci, si, page_xml_elements, all_pages,
                    files, aggregate, queries, error, call, args, result >>

\* an iteration that runs to its end
BuildPage ==
    /\ InLoop
    /\ \E raw \in SearchResults(CurPages[pi].id) :
       LET page == CurPages[pi]
           template_name == TemplateName(page, CurDefault)
           template == load_template(template_name)
       IN  /\ Truthy(template)
           /\ \E built \in {BuildOf(template, raw, page.id)} :
              /\ built.exc = ""
              /\ queries' = Append(queries, page.id)
              /\ files' = WriteFile(files, OutputPath(page.id), built.text)
              /\ page_xml_elements' = Append(page_xml_elements, built.elem)
              /\ stdout' = stdout \o << <<"building", page.id>> >> \o SearchPrints(raw)
                   \o << <<"created", OutputPath(page.id)>> >>
              /\ trail' = Append(trail,
                                 Entry(page.id, template_name, SearchKind(raw), "built"))
    /\ pi' = pi + 1
    /\ UNCHANGED << structure, templates, pc, ci, si, all_pages, aggregate, error,
                    call, args, result >>

\* an iteration that raises: nothing catches it and the script ends
FailPage ==
    /\ InLoop
    /\ \E raw \in SearchResults(CurPages[pi].id) :
       LET page == CurPages[pi]
           template_name == TemplateName(page, CurDefault)
           template == load_template(template_name)
       IN  /\ Truthy(template)
           /\ \E built \in {BuildOf(template, raw, page.id)} :
              /\ built.exc # ""
              /\ queries' = Append(queries, page.id)
              /\ files' = IF built.wrote
                          THEN WriteFile(files, OutputPath(page.id), built.text)
                          ELSE files
              /\ stdout' = stdout \o << <<"building", page.id>> >> \o SearchPrints(raw)
                   \o (IF built.saved THEN << <<"created", OutputPath(page.id)>> >>
                       ELSE <<>>)
              /\ trail' = Append(trail,
                                 Entry(page.id, template_name, SearchKind(raw), "failed"))
              /\ error' = built.exc
    /\ pc' = "crashed"
    /\ UNCHANGED << structure, templates, ci, si, pi, page_xml_elements, all_pages,
                    aggregate, call, args, result >>

\* ----------------------------------------------------------- the build loop

\* process_pages returns: all_pages += its elements, and the loops move on to
\* the category's next subcategory, or to the next category
ReturnPages ==
    /\ pc = "run" /\ ci <= Len(structure) /\ pi > Len(CurPages)
    /\ all_pages' = all_pages \o page_xml_elements
    /\ page_xml_elements' = <<>>
    /\ pi' = 1
    /\ IF si < Len(Calls(structure[ci]))
       THEN si' = si + 1 /\ ci' = ci
       ELSE si' = 1 /\ ci' = ci + 1
    /\ UNCHANGED << structure, templates, pc, files, aggregate, queries, stdout,
                    error, trail, call, args, result >>

\* after the loop: the combined document is written
WriteAggregate ==
    /\ pc = "run" /\ ci > Len(structure)
    /\ aggregate' = Elem(<<"k","n","o","w","l","e","d","g","e","_","b","a","s","e">>, <<>>, <<>>, all_pages)
    /\ stdout' = Append(stdout, <<"final", <<"o","u","t","p","u","t","/","k","n","o","w","l","e","d","g","e","_","b","a","s","e",".","x","m","l">>>>)
    /\ pc' = "done"
    /\ UNCHANGED << structure, templates, ci, si, pi, page_xml_elements, all_pages,
                    files, queries, error, trail, call, args, result >>

Init ==
    /\ structure \in Structures
    /\ templates \in TemplateDirs
    /\ pc = "run"
    /\ ci = 1 /\ si = 1 /\ pi = 1
    /\ page_xml_elements = <<>> /\ all_pages = <<>>
    /\ files = <<>> /\ aggregate = NoElem
    /\ queries = <<>> /\ stdout = <<>> /\ error = "" /\ trail = <<>>
    /\ call = "" /\ args = <<>> /\ result = <<>>

Next ==
    \/ SkipPage
    \/ BuildPage
    \/ FailPage
    \/ ReturnPages
    \/ WriteAggregate

Spec == Init /\ [][Next]_vars


\* ------------------------------------------------- the helpers on their own

\* all sequences over S of length at most n
RECURSIVE SeqsUpTo(_, _)
SeqsUpTo(S, n) ==
    IF n = 0 THEN {<<>>}
    ELSE LET shorter == SeqsUpTo(S, n - 1)
         IN  shorter \cup {Append(q, e) : q \in shorter, e \in S}

\* children of a generated XML root
ChildPool ==
    { Elem(<<"s","e","c","t","i","o","n">>, <<>>, <<" ","A","\n">>, <<>>),
      Elem(<<"s","e","c","t","i","o","n">>, <<>>, <<>>, <<>>),
      Elem(<<"i","n","t","r","o","d","u","c","t","i","o","n">>, <<>>, <<"H","i"," ">>, <<>>),
      Elem(<<"i","n","t","r","o","d","u","c","t","i","o","n">>, <<>>, <<" "," ">>, <<>>),
      Elem(<<"f","a","q">>, <<>>, <<"\n">>, << Elem(<<"q">>, <<>>, <<"Q","?">>, <<>>),
                                    Elem(<<"a">>, <<>>, <<>>, <<>>) >>),
      Elem(<<"f","a","q">>, <<>>, <<>>, << Elem(<<"a">>, <<>>, <<"A"," ","b">>, <<>>) >>),
      Elem(<<"d","i","v">>, <<>>, <<>>, << Elem(<<"s","e","c","t","i","o","n">>, <<>>, <<"N","e","s","t","e","d">>, <<>>),
                                  Elem(<<"i","n","t","r","o","d","u","c","t","i","o","n">>, <<>>, <<"D","e","e","p">>, <<>>) >>) }

Roots == {Elem(<<"p","a","g","e">>, <<>>, <<>>, kids) : kids \in SeqsUpTo(ChildPool, MaxChildren)}

Paths ==
    { <<"i","n","t","r","o","d","u","c","t","i","o","n">>, <<"f","a","q","/","q">>, <<"f","a","q","/","a">>, <<"d","i","v","/","s","e","c","t","i","o","n">>, <<"f","a","q","/","q","/","x">>,
      <<"s","t","e","p","s","/","s","t","e","p","1">>, <<"m","i","s","s","i","n","g","/","q","/","x">> }

PageIds == { <<"k","b","/","a","-","1">>, <<"k","b","/","s","u","b","/","m","y","-","p","a","g","e">> }

LookupArgs ==
    { [elem |-> e, path |-> p, n |-> 1, raw |-> NoMatch, page_id |-> <<>>] :
        e \in Roots, p \in Paths }
    \cup
    { [elem |-> e, path |-> <<"i","n","t","r","o","d","u","c","t","i","o","n">>, n |-> n, raw |-> NoMatch,
       page_id |-> <<>>] : e \in Roots, n \in (0 - 1)..MaxN }

Idle ==
    /\ structure = <<>> /\ templates = <<>>
    /\ pc = "idle"
    /\ ci = 1 /\ si = 1 /\ pi = 1
    /\ page_xml_elements = <<>> /\ all_pages = <<>>
    /\ files = <<>> /\ aggregate = NoElem
    /\ queries = <<>> /\ stdout = <<>> /\ error = "" /\ trail = <<>>

CallGetTextFromPath ==
    /\ pc = "idle" /\ call = ""
    /\ call' = "get_text_from_path"
    /\ result' = Ret(get_text_from_path(args.elem, args.path))
    /\ UNCHANGED << structure, templates, runVars, args >>

CallGetNthSectionText ==
    /\ pc = "idle" /\ call = ""
    /\ call' = "get_nth_section_text"
    /\ result' = get_nth_section_text(args.elem, args.n)
    /\ UNCHANGED << structure, templates, runVars, args >>

CallExtractContent ==
    /\ pc = "idle" /\ call = ""
    /\ \E raw \in {NoMatch, Malformed, RawXml(args.elem)}, page_id \in PageIds :
        /\ args' = [args EXCEPT !.raw = raw, !.page_id = page_id]
        /\ result' = extract_content(raw, page_id)
    /\ call' = "extract_content"
    /\ UNCHANGED << structure, templates, runVars >>

InitLookup == Idle /\ call = "" /\ result = <<>> /\ args \in LookupArgs

NextLookup == CallGetTextFromPath \/ CallGetNthSectionText \/ CallExtractContent

SpecLookup == InitLookup /\ [][NextLookup]_vars

\* templates for fill_template on its own
FillStrings ==
    { PStr(<<"{","i","n","t","r","o","d","u","c","t","i","o","n","}">>), PStr(<<"N","o"," ","f","i","e","l","d","s">>), PStr(<<"{","{","x","}","}"," ","{","f","a","q","_","1","_","a","n","s","w","e","r","}","!">>),
      PStr(<<"{","s","u","m","m","a","r","y","}">>) }

FillLeaves == FillStrings \cup {PInt(7), PNone}

FillItems ==
    { PDict(<< <<"h","e","a","d","i","n","g">>, <<"b","o","d","y">> >>, << PStr(<<"{","s","e","c","t","i","o","n","_","1","_","h","e","a","d","i","n","g","}">>), b >>) :
        b \in {PStr(<<"{","s","e","c","t","i","o","n","_","1","_","c","o","n","t","e","n","t","}">>), PInt(0)} }
    \cup {PStr(<<"{","c","o","n","c","l","u","s","i","o","n","}">>), PInt(3)}

FillLists == {PList(items) : items \in SeqsUpTo(FillItems, MaxListLen)}

FillTemplates ==
    FillLeaves \cup FillLists
    \cup { PDict(<< <<"t","i","t","l","e">>, <<"s","e","c","t","i","o","n","s">> >>, <<a, l>>) :
             a \in FillLeaves \cup {PDict(<< <<"m","a","i","n">> >>, << PStr(<<"{","p","a","g","e","_","t","i","t","l","e","}">>) >>)},
             l \in FillLists }

FillData ==
    { <<>>,
      extract_content(RawXml(ExportPage(<<"k","b","/","a","-","1">>)), <<"k","b","/","a","-","1">>).val,
      extract_content(RawXml(ExportPage(<<"k","b","/","a","-","2">>)), <<"k","b","/","a","-","2">>).val }

CallFillTemplate ==
    /\ pc = "idle" /\ call = ""
    /\ call' = "fill_template"
    /\ result' = fill_template(args.template, args.data)
    /\ UNCHANGED << structure, templates, runVars, args >>

InitFill ==
    /\ Idle /\ call = "" /\ result = <<>>
    /\ args \in {[template |-> t, data |-> d] : t \in FillTemplates, d \in FillData}

NextFill == CallFillTemplate

SpecFill == InitFill /\ [][NextFill]_vars


\* ------------------------------------------------------------ the claims

\* s without its leading and trailing whitespace
Trimmed(s) ==
    LET solid == {i \in 1..Len(s) : s[i] \notin WS}
    IN  IF solid = {} THEN <<>>
        ELSE SubSeq(s, CHOOSE i \in solid : \A j \in solid : i <= j,
                       CHOOSE i \in solid : \A j \in solid : j <= i)

\* the segments of a slash-separated path
Segments(path) ==
    LET cuts == {i \in 1..Len(path) : path[i] = "/"} \cup {0, Len(path) + 1}
        cut(k) == CHOOSE c \in cuts : Cardinality({d \in cuts : d < c}) = k
    IN  [k \in 1..(Cardinality(cuts) - 1) |-> SubSeq(path, cut(k - 1) + 1, cut(k) - 1)]

\* the first child of elem with the tag, or NoElem
FirstChild(elem, tag) ==
    LET hits == {i \in 1..Len(elem.children) : elem.children[i].tag = tag}
    IN  IF hits = {} THEN NoElem
        ELSE elem.children[CHOOSE i \in hits : \A j \in hits : i <= j]

\* the node reached from root after the first k segments, NoElem once a
\* segment is absent
RECURSIVE NodeAt(_, _, _)
NodeAt(root, segs, k) ==
    IF k = 0 THEN root
    ELSE LET prev == NodeAt(root, segs, k - 1)
         IN  IF prev = NoElem THEN NoElem ELSE FirstChild(prev, segs[k])

\* C7: get_text_from_path returns "[<path> not found]", with the whole path,
\* when a segment is absent at any depth or the final node has no text, and
\* otherwise the final node's text without its leading and trailing whitespace;
\* it never raises.
C7_PathLookup ==
    call = "get_text_from_path" =>
        LET segs == Segments(args.path)
            final == NodeAt(args.elem, segs, Len(segs))
            absent == \E k \in 1..Len(segs) : NodeAt(args.elem, segs, k) = NoElem
        IN  /\ result.exc = ""
            /\ result.val = IF absent \/ final.text = <<>>
                            THEN <<"[">> \o args.path \o <<" ","n","o","t"," ","f","o","u","n","d","]">>
                            ELSE Trimmed(final.text)

\* a three-segment path whose first segment is absent
C7_Witness ==
    /\ call = "get_text_from_path"
    /\ args.path = <<"m","i","s","s","i","n","g","/","q","/","x">>
    /\ Len(args.elem.children) = MaxChildren
    /\ result.val = <<"[","m","i","s","s","i","n","g","/","q","/","x"," ","n","o","t"," ","f","o","u","n","d","]">>

\* the indices of the children of root that are section elements
SectionIndices(root) ==
    {i \in 1..Len(root.children) : root.children[i].tag = <<"s","e","c","t","i","o","n">>}

\* C8: get_nth_section_text returns "[section <N> not found]" for N greater
\* than the number of section children of the root, and for 1 <= N <= that
\* number the trimmed text of the Nth section child, other children and deeper
\* sections not counted.
C8_PositionalLookup ==
    call = "get_nth_section_text" =>
        LET idx == SectionIndices(args.elem)
            nth == CHOOSE i \in idx : Cardinality({j \in idx : j <= i}) = args.n
        IN  /\ args.n > Cardinality(idx) =>
                result = Ret(<<"[","s","e","c","t","i","o","n"," ">> \o <<Digits[args.n + 1]>> \o <<" ","n","o","t"," ","f","o","u","n","d","]">>)
            /\ (1 <= args.n /\ args.n <= Cardinality(idx)) =>
                result = Ret(Trimmed(args.elem.children[nth].text))

\* the first section child follows a div that holds a section of its own
C8_Witness ==
    /\ call = "get_nth_section_text"
    /\ args.n = 1
    /\ Len(args.elem.children) >= 2
    /\ args.elem.children[1].tag = <<"d","i","v">>
    /\ args.elem.children[2].tag = <<"s","e","c","t","i","o","n">>
    /\ result = Ret(<<"A">>)

\* C2: extract_content returns a mapping with every key of the fixed field
\* vocabulary, whatever the search answered.
C2_AllKeys ==
    call = "extract_content" =>
        /\ result.exc = ""
        /\ \A k \in 1..Len(FIELDS) : FIELDS[k] \in MapKeys(result.val)

\* f is t with every string leaf formatted and everything else as in t
RECURSIVE FilledFrom(_, _, _)
FilledFrom(t, f, data) ==
    CASE t.t = "str" -> f.t = "str" /\ Format(t.s, data) = Ret(f.s)
      [] t.t = "list" ->
            /\ f.t = "list" /\ Len(f.items) = Len(t.items)
            /\ \A i \in 1..Len(t.items) : FilledFrom(t.items[i], f.items[i], data)
      [] t.t = "dict" ->
            /\ f.t = "dict" /\ f.keys = t.keys /\ Len(f.items) = Len(t.items)
            /\ \A i \in 1..Len(t.items) : FilledFrom(t.items[i], f.items[i], data)
      [] OTHER -> f = t

\* C10: what fill_template returns has the shape of the template: the same
\* keys in every mapping, the same length and order in every sequence, every
\* string leaf replaced by its substitution and every other leaf as it was.
C10_SameShape ==
    (call = "fill_template" /\ result.exc = "") =>
        FilledFrom(args.template, result.val, args.data)

\* a mapping holding a list of a mapping and a number, filled from a record
\* whose introduction is Hello
C10_Witness ==
    /\ call = "fill_template" /\ result.exc = ""
    /\ args.template.t = "dict"
    /\ args.template.items[1] = PStr(<<"{","i","n","t","r","o","d","u","c","t","i","o","n","}">>)
    /\ Len(args.template.items[2].items) = MaxListLen
    /\ args.template.items[2].items[1].t = "dict"
    /\ args.template.items[2].items[2] = PInt(3)
    /\ result.val.items[1] = PStr(<<"H","e","l","l","o">>)
    /\ result.val.items[2].items[1].items[2] = PStr(<<"[","s","e","c","t","i","o","n"," ","1"," ","n","o","t"," ","f","o","u","n","d","]">>)

\* ---- the run

\* the pages of a category tree of any depth, depth first, a category's own
\* pages before those of its subcategories, each with the template name it
\* resolves to: its own, else its category's, else the nearest ancestor's
RECURSIVE DfsPages(_, _)
DfsPages(categories, inherited) ==
    IF categories = <<>> THEN <<>>
    ELSE LET c == Head(categories)
             t == IF c.template = <<>> THEN inherited ELSE c.template
         IN  [i \in 1..Len(c.pages) |->
                [page_id |-> c.pages[i].id,
                 template_name |->
                    IF c.pages[i].template = <<>> THEN t ELSE c.pages[i].template]]
             \o DfsPages(c.subcategories, t)
             \o DfsPages(Tail(categories), inherited)

ExpectedPages == DfsPages(structure, <<"d","e","f","a","u","l","t","_","p","a","g","e">>)

ExpectedIds == [k \in 1..Len(ExpectedPages) |-> ExpectedPages[k].page_id]

IdsOf(pages) == [i \in 1..Len(pages) |-> pages[i].id]

RECURSIVE CallsIds(_)
CallsIds(calls) ==
    IF calls = <<>> THEN <<>> ELSE IdsOf(Head(calls).pages) \o CallsIds(Tail(calls))

RECURSIVE CategoriesIds(_)
CategoriesIds(categories) ==
    IF categories = <<>> THEN <<>>
    ELSE CallsIds(Calls(Head(categories))) \o CategoriesIds(Tail(categories))

\* the ids of the pages the build loop visits, in its order
LoopOrder == CategoriesIds(structure)

\* the ids of the pages the build loop has yet to begin
Pending ==
    IF ci > Len(structure) THEN <<>>
    ELSE IdsOf(SubSeq(CurPages, pi, Len(CurPages)))
         \o CallsIds(SubSeq(Calls(structure[ci]), si + 1, Len(Calls(structure[ci]))))
         \o CategoriesIds(SubSeq(structure, ci + 1, Len(structure)))

TrailIds == [i \in 1..Len(trail) |-> trail[i].page_id]

\* the aggregation sequence: what was returned and what the call in progress holds
Elements == all_pages \o page_xml_elements

ElementIds(elems) == [i \in 1..Len(elems) |-> MapGet(elems[i].attrib, <<"i","d">>)]

ElementCount(page_id) ==
    Cardinality({i \in 1..Len(Elements) : ElementIds(Elements)[i] = page_id})

FileCount(page_id) ==
    Cardinality({i \in 1..Len(files) : files[i][1] = OutputPath(page_id)})

Queried(page_id) == \E i \in 1..Len(queries) : queries[i] = page_id

TemplateExists(template_name) == template_name \in MapKeys(templates)

\* ids are among order and appear in the order they have there
InOrderOf(ids, order) ==
    LET at(x) == {k \in 1..Len(order) : order[k] = x}
    IN  /\ \A i \in 1..Len(ids) : at(ids[i]) # {}
        /\ \A i \in 1..(Len(ids) - 1) :
              \A k \in at(ids[i]), l \in at(ids[i + 1]) : k < l

\* C1: in a finished run every page of the tree, at any depth, whose template
\* loads has exactly one rendered file and exactly one element, carrying its id.
C1_OnePerPage ==
    pc = "done" =>
        \A k \in 1..Len(ExpectedPages) :
            TemplateExists(ExpectedPages[k].template_name) =>
                /\ FileCount(ExpectedPages[k].page_id) = 1
                /\ Cardinality({i \in 1..Len(aggregate.children) :
                        ElementIds(aggregate.children)[i] = ExpectedPages[k].page_id}) = 1

\* C3: a page whose search found nothing, or whose record did not parse, is
\* still built: its file is written, its element appended, the run goes on.
C3_MissStillBuilt ==
    \A i \in 1..Len(trail) :
        trail[i].search \in {"nomatch", "malformed"} =>
            /\ trail[i].outcome = "built"
            /\ FileCount(trail[i].page_id) = 1
            /\ ElementCount(trail[i].page_id) = 1
            /\ pc # "crashed"

\* C4: in a finished run every page of the tree, at any depth, was built once,
\* with the template name it resolves to.
C4_EffectiveTemplate ==
    pc = "done" =>
        \A k \in 1..Len(ExpectedPages) :
            Cardinality({i \in 1..Len(trail) :
                /\ trail[i].page_id = ExpectedPages[k].page_id
                /\ trail[i].template_name = ExpectedPages[k].template_name}) = 1

RECURSIVE UsesUnknownField(_)
UsesUnknownField(t) ==
    CASE t.t = "str" ->
            \E i \in {x \in 1..Len(t.s) : t.s[x] = "{"} :
                \E j \in {x \in (i + 1)..Len(t.s) : t.s[x] = "}"} :
                    /\ (i = 1 \/ t.s[i - 1] # "{") /\ t.s[i + 1] # "{"
                    /\ \A m \in (i + 1)..(j - 1) : t.s[m] \notin {"{", "}"}
                    /\ \A k \in 1..Len(FIELDS) : FIELDS[k] # SubSeq(t.s, i + 1, j - 1)
      [] t.t \in {"list", "dict"} -> \E i \in 1..Len(t.items) : UsesUnknownField(t.items[i])
      [] OTHER -> FALSE

\* C6: a page whose template names a field outside the fixed key set fails
\* with a KeyError, and neither a file nor an element is made for it.
C6_UnknownFieldFails ==
    \A i \in 1..Len(trail) :
        UsesUnknownField(load_template(trail[i].template_name)) =>
            /\ trail[i].outcome = "failed"
            /\ i = Len(trail) /\ pc = "crashed" /\ error = "KeyError"
            /\ FileCount(trail[i].page_id) = 0
            /\ ElementCount(trail[i].page_id) = 0

\* the record was found and parsed, and the template's {summary} ended the run
C6_Witness ==
    /\ pc = "crashed" /\ error = "KeyError"
    /\ Len(trail) >= 2
    /\ trail[Len(trail)].search = "ok"
    /\ load_template(trail[Len(trail)].template_name) = BadTemplate
    /\ trail[1].outcome = "built"

\* C9: pages are begun, and their elements stand in the aggregation sequence,
\* in depth-first order, a category's own pages before its subcategories' and
\* categories in list order; a page that was built is complete (file and
\* element) by the time the next one is begun; the combined document is
\* written only after the last page, with the elements in that order.
C9_DepthFirstOrder ==
    /\ InOrderOf(TrailIds, ExpectedIds)
    /\ InOrderOf(ElementIds(Elements), ExpectedIds)
    /\ \A i \in 1..Len(trail) :
          trail[i].outcome = "built" =>
              FileCount(trail[i].page_id) = 1 /\ ElementCount(trail[i].page_id) = 1
    /\ ElementIds(Elements) =
          LET built == SelectSeq(trail, LAMBDA e : e.outcome = "built")
          IN  [i \in 1..Len(built) |-> built[i].page_id]
    /\ aggregate # NoElem =>
          /\ pc = "done" /\ Pending = <<>> /\ page_xml_elements = <<>>
          /\ aggregate.children = all_pages
    /\ pc = "done" => aggregate # NoElem /\ TrailIds = LoopOrder

\* a finished run over pages of both top-level categories and the subcategory
C9_Witness ==
    /\ pc = "done"
    /\ ElementIds(aggregate.children) =
          << <<"k","b","/","a","-","1">>, <<"k","b","/","a","-","2">>, <<"k","b","/","s","u","b","/","b","-","1">>, <<"k","b","/","s","u","b","/","b","-","2">>, <<"d","-","1">> >>

====
